---- MODULE Spec2Model ----
(***************************************************************************)
(* A model of the startengine_erc1450 Python package: the artifact loader  *)
(* (artifacts/loader.py) and the two contract wrappers                     *)
(* (contracts/erc1450.py, contracts/rta_proxy.py).                         *)
(*                                                                         *)
(* Python values are modelled as follows.                                  *)
(*   str        a TLA+ string                                              *)
(*   int        a TLA+ integer; a sequence of limbs where it is unbounded  *)
(*   float      a mantissa and a binary exponent (see Python's numbers)    *)
(*   list/tuple a TLA+ sequence                                            *)
(*   dict       a TLA+ function from its keys (a record)                   *)
(*   a call     a record [kind |-> "return", val |-> v, fsops |-> ops] or  *)
(*              [kind |-> "raise", exc |-> class, msg |-> m, fsops |-> ops]*)
(*              where fsops lists the filesystem operations the call made. *)
(* The filesystem below ARTIFACTS_DIR is the variable files: one entry per *)
(* relative path, saying whether the path exists and what json.load makes  *)
(* of its text.                                                            *)
(***************************************************************************)
EXTENDS Integers, Sequences, FiniteSets, TLC

VARIABLES
    files,   \* relative path -> file state, the tree below ARTIFACTS_DIR
    token,   \* the ERC1450Contract instance (self.abi, self.bytecode)
    proxy,   \* the RTAProxyContract instance (self.abi, self.bytecode)
    call,    \* the last call made: its operation and arguments
    ret      \* what the last call returned or raised

vars == <<files, token, proxy, call, ret>>

-----------------------------------------------------------------------------
(* Python plumbing: returns, raises, the exception classes.                *)

Return(v, ops) == [kind |-> "return", val |-> v, fsops |-> ops]

Raise(cls, m, ops) == [kind |-> "raise", exc |-> cls, msg |-> m, fsops |-> ops]

NoResult == [kind |-> "none", fsops |-> <<>>]

\* The direct base class of each built-in exception class the code meets.
ExceptionBase ==
    [JSONDecodeError   |-> "ValueError",
     ValueError        |-> "Exception",
     FileNotFoundError |-> "OSError",
     OSError           |-> "Exception",
     Exception         |-> "BaseException"]

RECURSIVE IsSubclass(_, _)
IsSubclass(cls, base) ==
    IF cls = base THEN TRUE
    ELSE IF cls \in DOMAIN ExceptionBase THEN IsSubclass(ExceptionBase[cls], base)
    ELSE FALSE

\* except (A, B): the raised class is caught when it derives from one of them.
Caught(r, classes) ==
    r.kind = "raise" /\ \E c \in classes : IsSubclass(r.exc, c)

\* str.startswith
startswith(s, prefix) ==
    Len(s) >= Len(prefix) /\ SubSeq(s, 1, Len(prefix)) = prefix

\* dict.get(key, default)
Get(d, key, default) == IF key \in DOMAIN d THEN d[key] ELSE default

\* Python's None, unlike every JSON value the model reads.
None == [py |-> "None"]

\* The elements of a sequence.
Range(s) == {s[i] : i \in DOMAIN s}

-----------------------------------------------------------------------------
(* artifacts/loader.py                                                     *)

\* CONTRACT_PATHS, in the order the dict literal lists its keys.
CONTRACT_PATHS ==
    << <<"RTAProxy", "RTAProxy.sol/RTAProxy.json">>,
       <<"ERC1450", "ERC1450.sol/ERC1450.json">>,
       <<"RTAProxyUpgradeable",
         "upgradeable/RTAProxyUpgradeable.sol/RTAProxyUpgradeable.json">>,
       <<"ERC1450Upgradeable",
         "upgradeable/ERC1450Upgradeable.sol/ERC1450Upgradeable.json">>,
       <<"IERC1450", "interfaces/IERC1450.sol/IERC1450.json">> >>

\* CONTRACT_PATHS.keys(), in order.
ContractKeys == [i \in DOMAIN CONTRACT_PATHS |-> CONTRACT_PATHS[i][1]]

\* name in CONTRACT_PATHS
InContractPaths(name) == \E i \in DOMAIN CONTRACT_PATHS : CONTRACT_PATHS[i][1] = name

\* CONTRACT_PATHS[name]
PathOf(name) ==
    CONTRACT_PATHS[CHOOSE i \in DOMAIN CONTRACT_PATHS : CONTRACT_PATHS[i][1] = name][2]

ArtifactPaths == {CONTRACT_PATHS[i][2] : i \in DOMAIN CONTRACT_PATHS}

\* ", ".join(keys)
RECURSIVE JoinComma(_)
JoinComma(s) ==
    IF s = <<>> THEN ""
    ELSE IF Len(s) = 1 THEN s[1]
    ELSE s[1] \o ", " \o JoinComma(Tail(s))

\* A path that does not exist, a file whose text is no JSON, a file holding
\* the JSON document doc.
Absent == [exists |-> FALSE, wellformed |-> FALSE, doc |-> <<>>]

Malformed == [exists |-> TRUE, wellformed |-> FALSE, doc |-> <<>>]

Present(d) == [exists |-> TRUE, wellformed |-> TRUE, doc |-> d]

\* A parse that keeps only the abi of the document.
json_load_abi_only(f, ops) ==
    IF f.wellformed
    THEN Return([k \in DOMAIN f.doc \cap {"abi"} |-> f.doc[k]], ops)
    ELSE Raise("JSONDecodeError", "Expecting value", ops)

\* json.load(f) on an open file: the document, or JSONDecodeError (a
\* ValueError) when the text is no JSON.
json_load(f, ops) ==
    IF f.wellformed THEN Return(f.doc, ops)
    ELSE Raise("JSONDecodeError", "Expecting value", ops)

load_artifact_unknown(fs, contract_name) ==
    Raise("ValueError",
          "Unknown contract: " \o contract_name \o ". Available contracts: "
              \o JoinComma(ContractKeys),
          <<>>)

load_artifact_known(fs, contract_name) ==
    LET artifact_path == PathOf(contract_name)
        probe == << <<"exists", artifact_path>> >>
    IN  IF ~ fs[artifact_path].exists
        THEN Raise("FileNotFoundError",
                   "Artifact file not found: " \o artifact_path
                       \o "\nMake sure the contracts have been compiled with 'npm run compile'",
                   probe)
        ELSE json_load(fs[artifact_path], Append(probe, <<"open", artifact_path>>))

\* str.strip(), which load_artifact does not apply.
RECURSIVE StripSpaces(_)
StripSpaces(s) ==
    IF Len(s) > 0 /\ SubSeq(s, 1, 1) \in {" ", "\n"}
    THEN StripSpaces(SubSeq(s, 2, Len(s)))
    ELSE IF Len(s) > 0 /\ SubSeq(s, Len(s), Len(s)) \in {" ", "\n"}
    THEN StripSpaces(SubSeq(s, 1, Len(s) - 1))
    ELSE s

\* A loader that strips the name before the lookup.
load_artifact_stripped(fs, contract_name) ==
    IF ~ InContractPaths(StripSpaces(contract_name))
    THEN load_artifact_unknown(fs, contract_name)
    ELSE load_artifact_known(fs, StripSpaces(contract_name))

\* load_artifact(contract_name) against the filesystem fs.
load_artifact(fs, contract_name) ==
    IF ~ InContractPaths(contract_name)
    THEN load_artifact_unknown(fs, contract_name)
    ELSE load_artifact_known(fs, contract_name)

\* list_available_contracts()
list_available_contracts == ContractKeys

\* A probe that only asks whether the path exists.
validate_one_exists_only(fs, contract_name) ==
    [raised |-> FALSE, status |-> fs[PathOf(contract_name)].exists, fsops |-> <<>>]

\* The body of validate_artifacts' loop for one name: try load_artifact,
\* except (FileNotFoundError, ValueError).  Any other exception propagates.
validate_one(fs, contract_name) ==
    LET r == load_artifact(fs, contract_name)
    IN  IF r.kind = "return" THEN [raised |-> FALSE, status |-> TRUE, fsops |-> r.fsops]
        ELSE IF Caught(r, {"FileNotFoundError", "ValueError"})
             THEN [raised |-> FALSE, status |-> FALSE, fsops |-> r.fsops]
             ELSE [raised |-> TRUE, status |-> FALSE, fsops |-> r.fsops, exc |-> r]

\* validate_artifacts(): the loop over CONTRACT_PATHS from index i on, with
\* the status dict and the filesystem operations accumulated so far.
RECURSIVE validate_from(_, _, _, _)
validate_from(fs, i, status, ops) ==
    IF i > Len(ContractKeys) THEN Return(status, ops)
    ELSE LET one == validate_one(fs, ContractKeys[i])
         IN  IF one.raised
             THEN Raise(one.exc.exc, one.exc.msg, ops \o one.fsops)
             ELSE validate_from(fs, i + 1,
                               [k \in DOMAIN status \cup {ContractKeys[i]} |->
                                    IF k = ContractKeys[i] THEN one.status ELSE status[k]],
                               ops \o one.fsops)

validate_artifacts(fs) == validate_from(fs, 1, <<>>, <<>>)

\* get_abi(contract_name): artifact.get('abi', [])
get_abi(fs, contract_name) ==
    LET artifact == load_artifact(fs, contract_name)
    IN  IF artifact.kind = "return"
        THEN Return(Get(artifact.val, "abi", <<>>), artifact.fsops)
        ELSE artifact

\* get_bytecode(contract_name): artifact.get('bytecode', '0x')
get_bytecode(fs, contract_name) ==
    LET artifact == load_artifact(fs, contract_name)
    IN  IF artifact.kind = "return"
        THEN Return(Get(artifact.val, "bytecode", "0x"), artifact.fsops)
        ELSE artifact

\* An accessor that projects the creation bytecode instead.
get_deployed_bytecode_creation(fs, contract_name) ==
    LET artifact == load_artifact(fs, contract_name)
    IN  IF artifact.kind = "return"
        THEN Return(Get(artifact.val, "bytecode", "0x"), artifact.fsops)
        ELSE artifact

\* get_deployed_bytecode(contract_name): artifact.get('deployedBytecode', '0x')
get_deployed_bytecode(fs, contract_name) ==
    LET artifact == load_artifact(fs, contract_name)
    IN  IF artifact.kind = "return"
        THEN Return(Get(artifact.val, "deployedBytecode", "0x"), artifact.fsops)
        ELSE artifact

\* get_contract_metadata(contract_name): artifact.get(key) is None for an
\* absent key; networks alone has a default, the empty dict.
get_contract_metadata(fs, contract_name) ==
    LET artifact == load_artifact(fs, contract_name)
    IN  IF artifact.kind = "return"
        THEN Return([contractName  |-> Get(artifact.val, "contractName", None),
                     sourceName    |-> Get(artifact.val, "sourceName", None),
                     compiler      |-> Get(artifact.val, "compiler", None),
                     networks      |-> Get(artifact.val, "networks", <<>>),
                     schemaVersion |-> Get(artifact.val, "schemaVersion", None)],
                    artifact.fsops)
        ELSE artifact

-----------------------------------------------------------------------------
(* scripts/validate_package.py                                             *)

\* sub in s
Contains(s, sub) ==
    \E i \in 1..(Len(s) - Len(sub) + 1) : SubSeq(s, i, i + Len(sub) - 1) = sub

\* name.startswith("I") or "Interface" in name
is_interface(name) == startswith(name, "I") \/ Contains(name, "Interface")

\* A loop body that asks every contract, interfaces included, for bytecode.
validate_name_bytecode_required(fs, name) ==
    LET r == load_artifact(fs, name)
    IN  IF r.kind = "raise"
        THEN [raised |-> FALSE, valid |-> FALSE, fsops |-> r.fsops,
              line |-> [mark |-> "error", name |-> name, text |-> name \o ": " \o r.msg]]
        ELSE LET abi == Get(r.val, "abi", <<>>)
                 bytecode == Get(r.val, "bytecode", "")
             IN  IF abi = <<>>
                 THEN [raised |-> FALSE, valid |-> FALSE, fsops |-> r.fsops,
                       line |-> [mark |-> "warning", name |-> name,
                                 text |-> name \o ": No ABI found"]]
                 ELSE IF bytecode = "" \/ bytecode = "0x"
                 THEN [raised |-> FALSE, valid |-> FALSE, fsops |-> r.fsops,
                       line |-> [mark |-> "warning", name |-> name,
                                 text |-> name \o ": No bytecode found"]]
                 ELSE [raised |-> FALSE, valid |-> TRUE, fsops |-> r.fsops,
                       line |-> [mark |-> "ok", name |-> name,
                                 text |-> name \o ": " \o ToString(Len(abi))
                                     \o " ABI items, " \o ToString(Len(bytecode))
                                     \o " bytecode chars"]]

\* The body of validate()'s loop for one name: whether the name leaves
\* all_valid alone, and the status line printed for it.  `except Exception`
\* catches what load_artifact raises; anything else would propagate.
validate_name(fs, name) ==
    LET r == load_artifact(fs, name)
    IN  IF r.kind = "raise"
        THEN IF Caught(r, {"Exception"})
             THEN [raised |-> FALSE, valid |-> FALSE, fsops |-> r.fsops,
                   line |-> [mark |-> "error", name |-> name,
                             text |-> name \o ": " \o r.msg]]
             ELSE [raised |-> TRUE, valid |-> FALSE, fsops |-> r.fsops, exc |-> r]
        ELSE LET abi == Get(r.val, "abi", <<>>)
                 bytecode == Get(r.val, "bytecode", "")
             IN  IF abi = <<>>
                 THEN [raised |-> FALSE, valid |-> FALSE, fsops |-> r.fsops,
                       line |-> [mark |-> "warning", name |-> name,
                                 text |-> name \o ": No ABI found"]]
                 ELSE IF bytecode = "" \/ bytecode = "0x"
                 THEN IF is_interface(name)
                      THEN [raised |-> FALSE, valid |-> TRUE, fsops |-> r.fsops,
                            line |-> [mark |-> "ok", name |-> name,
                                      text |-> name \o ": " \o ToString(Len(abi))
                                          \o " ABI items (interface)"]]
                      ELSE [raised |-> FALSE, valid |-> FALSE, fsops |-> r.fsops,
                            line |-> [mark |-> "warning", name |-> name,
                                      text |-> name \o ": No bytecode found"]]
                 ELSE [raised |-> FALSE, valid |-> TRUE, fsops |-> r.fsops,
                       line |-> [mark |-> "ok", name |-> name,
                                 text |-> name \o ": " \o ToString(Len(abi))
                                     \o " ABI items, " \o ToString(Len(bytecode))
                                     \o " bytecode chars"]]

\* validate()'s loop over contracts from index i on, with all_valid, the
\* filesystem operations and the status lines accumulated so far; then the
\* exit code.
RECURSIVE validate_loop(_, _, _, _, _, _)
validate_loop(fs, contracts, i, all_valid, ops, out) ==
    IF i > Len(contracts)
    THEN Return(IF all_valid THEN 0 ELSE 1, ops) @@ [out |-> out]
    ELSE LET one == validate_name(fs, contracts[i])
         IN  IF one.raised
             THEN Raise(one.exc.exc, one.exc.msg, ops \o one.fsops) @@ [out |-> out]
             ELSE validate_loop(fs, contracts, i + 1, all_valid /\ one.valid,
                                ops \o one.fsops, Append(out, one.line))

\* validate() of scripts/validate_package.py
validate(fs) == validate_loop(fs, list_available_contracts, 1, TRUE, <<>>, <<>>)

-----------------------------------------------------------------------------
(* What the two wrappers share: __init__ and prepare_transaction have the  *)
(* same text in contracts/erc1450.py and contracts/rta_proxy.py.           *)

\* __init__: self.abi = get_abi(NAME); self.bytecode = get_bytecode(NAME).
\* The result is the new instance, or the exception the first failing
\* accessor raised (and then no instance is made).
Contract_init(fs, contract_name) ==
    LET abi == get_abi(fs, contract_name)
        bytecode == get_bytecode(fs, contract_name)
    IN  IF abi.kind = "raise" THEN abi
        ELSE IF bytecode.kind = "raise"
             THEN [bytecode EXCEPT !.fsops = abi.fsops \o bytecode.fsops]
             ELSE Return([live |-> TRUE, abi |-> abi.val, bytecode |-> bytecode.val],
                         abi.fsops \o bytecode.fsops)

\* item.get(key) == value, for a value that is not None.
GetEquals(item, key, value) == key \in DOMAIN item /\ item[key] = value

\* A scan that takes any entry of that name, whatever its type.
item_matches_any_type(item, function_name) == GetEquals(item, "name", function_name)

\* The scan's test: item.get('type') == 'function' and item.get('name') == function_name
item_matches(item, function_name) ==
    GetEquals(item, "type", "function") /\ GetEquals(item, "name", function_name)

\* The for loop over self.abi from index i on: the first matching item, at
\* which the loop breaks, or nothing (function_abi stays None).
RECURSIVE find_function(_, _, _)
find_function(abi, function_name, i) ==
    IF i > Len(abi) THEN [found |-> FALSE]
    ELSE IF item_matches(abi[i], function_name) THEN [found |-> TRUE, item |-> abi[i]]
    ELSE find_function(abi, function_name, i + 1)

\* prepare_transaction(self, function_name, *args, **kwargs).  A matching
\* item has a type and a name, so it is a non-empty dict and `not
\* function_abi` is false for it.
prepare_transaction(self, function_name, args, kwargs) ==
    LET function_abi == find_function(self.abi, function_name, 1)
    IN  IF ~ function_abi.found
        THEN Raise("ValueError", "Function " \o function_name \o " not found in ABI", <<>>)
        ELSE Return([function |-> function_name,
                     args |-> args,
                     abi |-> function_abi.item],
                    <<>>)

-----------------------------------------------------------------------------
(* Python's numbers, for the token amount helpers.                         *)
(*                                                                         *)
(* An int is unbounded: a sequence of limbs in base LimbBase, least        *)
(* significant first, the last one not zero (zero is the empty sequence).  *)
(* A float is a non-negative finite IEEE 754 double [m, e] standing for    *)
(* m * 2^e with m < 2^MantissaBits (or m = 2^MantissaBits after a round    *)
(* up, which is the same double as m/2 with e+1).  The amounts the model   *)
(* passes stay far from the overflow and the subnormal range, so neither   *)
(* is modelled.                                                            *)

LimbBits == 15

LimbBase == 32768

\* The precision of a double: sys.float_info.mant_dig.
MantissaBits == 53

RECURSIVE BigStrip(_)
BigStrip(x) ==
    IF x # <<>> /\ x[Len(x)] = 0 THEN BigStrip(SubSeq(x, 1, Len(x) - 1)) ELSE x

RECURSIVE BigFromInt(_)
BigFromInt(n) ==
    IF n = 0 THEN <<>> ELSE <<n % LimbBase>> \o BigFromInt(n \div LimbBase)

RECURSIVE IntBitLen(_)
IntBitLen(n) == IF n = 0 THEN 0 ELSE 1 + IntBitLen(n \div 2)

\* int.bit_length()
BigBitLen(x) ==
    IF x = <<>> THEN 0 ELSE LimbBits * (Len(x) - 1) + IntBitLen(x[Len(x)])

RECURSIVE BigAddFrom(_, _, _, _)
BigAddFrom(x, y, i, carry) ==
    IF i > Len(x) /\ i > Len(y)
    THEN IF carry = 0 THEN <<>> ELSE <<carry>>
    ELSE LET t == (IF i <= Len(x) THEN x[i] ELSE 0)
                  + (IF i <= Len(y) THEN y[i] ELSE 0) + carry
         IN  <<t % LimbBase>> \o BigAddFrom(x, y, i + 1, t \div LimbBase)

\* x + y
BigAdd(x, y) == BigStrip(BigAddFrom(x, y, 1, 0))

RECURSIVE BigMulSmallFrom(_, _, _, _)
BigMulSmallFrom(x, k, i, carry) ==
    IF i > Len(x)
    THEN IF carry = 0 THEN <<>> ELSE <<carry>>
    ELSE LET t == x[i] * k + carry
         IN  <<t % LimbBase>> \o BigMulSmallFrom(x, k, i + 1, t \div LimbBase)

\* x * k for 0 <= k < LimbBase
BigMulSmall(x, k) == BigStrip(BigMulSmallFrom(x, k, 1, 0))

\* The limbs i..1 of x divided by q (0 < q < LimbBase), the limbs above
\* having left the remainder rem.
RECURSIVE BigDivSmallFrom(_, _, _, _)
BigDivSmallFrom(x, q, i, rem) ==
    IF i = 0 THEN [quot |-> <<>>, rem |-> rem]
    ELSE LET t == rem * LimbBase + x[i]
             rest == BigDivSmallFrom(x, q, i - 1, t % q)
         IN  [quot |-> Append(rest.quot, t \div q), rem |-> rest.rem]

\* divmod(x, q) for 0 < q < LimbBase
BigDivSmall(x, q) ==
    LET r == BigDivSmallFrom(x, q, Len(x), 0)
    IN  [quot |-> BigStrip(r.quot), rem |-> r.rem]

\* x << k
BigShl(x, k) ==
    IF x = <<>> THEN <<>>
    ELSE [i \in 1..(k \div LimbBits) |-> 0] \o BigMulSmall(x, 2 ^ (k % LimbBits))

\* x >> k
BigShr(x, k) ==
    IF k \div LimbBits >= Len(x) THEN <<>>
    ELSE BigDivSmall(SubSeq(x, (k \div LimbBits) + 1, Len(x)), 2 ^ (k % LimbBits)).quot

\* (x >> i) & 1
BigTestBit(x, i) ==
    IF (i \div LimbBits) + 1 > Len(x) THEN 0
    ELSE (x[(i \div LimbBits) + 1] \div (2 ^ (i % LimbBits))) % 2

\* x & ((1 << k) - 1) != 0
BigLowBitsNonZero(x, k) ==
    \E l \in DOMAIN x :
        \/ l <= k \div LimbBits /\ x[l] # 0
        \/ l = (k \div LimbBits) + 1 /\ x[l] % (2 ^ (k % LimbBits)) # 0

\* x * y: the sum over the limbs of y, from limb j on, of x * y[j] shifted.
RECURSIVE BigMulFrom(_, _, _)
BigMulFrom(x, y, j) ==
    IF j > Len(y) THEN <<>>
    ELSE BigAdd(BigShl(BigMulSmall(x, y[j]), LimbBits * (j - 1)), BigMulFrom(x, y, j + 1))

BigMul(x, y) == BigMulFrom(x, y, 1)

\* 10 ** d
RECURSIVE BigPow10(_)
BigPow10(d) == IF d = 0 THEN <<1>> ELSE BigMulSmall(BigPow10(d - 1), 10)

\* The double nearest to (q + f) * 2^e, ties to even, where 0 <= f < 1 and
\* sticky says whether f > 0.  A q of at most MantissaBits bits is only
\* passed with sticky false, and is exact.
RoundToDouble(q, sticky, e) ==
    IF BigBitLen(q) <= MantissaBits THEN [m |-> q, e |-> e]
    ELSE LET k == BigBitLen(q) - MantissaBits
             kept == BigShr(q, k)
             guard == BigTestBit(q, k - 1) = 1
             rest == sticky \/ BigLowBitsNonZero(q, k - 1)
             odd == BigTestBit(kept, 0) = 1
         IN  [m |-> IF guard /\ (rest \/ odd) THEN BigAdd(kept, <<1>>) ELSE kept,
              e |-> e + k]

\* float(x) for an int x
IntToFloat(x) == RoundToDouble(x, FALSE, 0)

\* a * b on doubles: the exact product, rounded once.
FloatMul(a, b) == RoundToDouble(BigMul(a.m, b.m), FALSE, a.e + b.e)

\* int(f): truncation toward zero.
FloatToInt(f) == IF f.e >= 0 THEN BigShl(f.m, f.e) ELSE BigShr(f.m, 0 - f.e)

\* x divided by 10, d times over, with sticky telling whether any of the
\* divisions left a remainder: floor(x / 10**d) and whether it is inexact.
RECURSIVE DivPow10From(_, _, _)
DivPow10From(x, d, sticky) ==
    IF d = 0 THEN [quot |-> x, sticky |-> sticky]
    ELSE LET r == BigDivSmall(x, 10)
         IN  IF r.rem # 0 THEN DivPow10From(r.quot, d - 1, TRUE)
             ELSE DivPow10From(r.quot, d - 1, sticky)

\* x / 10**d on ints: Python's true division, the correctly rounded
\* quotient.  x is scaled by 2^(55 + 4d) first, so that the integer quotient
\* has more bits than a mantissa and what is cut off only decides the
\* rounding.
TrueDivPow10(x, d) ==
    IF x = <<>> THEN [m |-> <<>>, e |-> 0]
    ELSE LET shift == MantissaBits + 2 + 4 * d
             r == DivPow10From(BigShl(x, shift), d, FALSE)
         IN  RoundToDouble(r.quot, r.sticky, 0 - shift)

-----------------------------------------------------------------------------
(* contracts/erc1450.py                                                    *)

ERC1450Contract_CONTRACT_NAME == "ERC1450"

\* The largest decimals encode_constructor_params accepts.
MaxDecimals == 18

\* An encoder that accepts any non-negative decimals.
ERC1450Contract_encode_constructor_params_no_upper(name, symbol, decimals, total_supply, rta_address) ==
    IF name = "" THEN Raise("ValueError", "Token name is required", <<>>)
    ELSE IF symbol = "" THEN Raise("ValueError", "Token symbol is required", <<>>)
    ELSE IF decimals < 0
         THEN Raise("ValueError", "Decimals must be between 0 and 18", <<>>)
    ELSE IF total_supply <= 0
         THEN Raise("ValueError", "Total supply must be greater than 0", <<>>)
    ELSE IF rta_address = "" \/ ~ startswith(rta_address, "0x")
         THEN Raise("ValueError", "Invalid RTA address", <<>>)
    ELSE IF Len(rta_address) # 42
         THEN Raise("ValueError", "RTA address must be 42 characters", <<>>)
    ELSE Return([_name |-> name, _symbol |-> symbol, _decimals |-> decimals,
                 _totalSupply |-> total_supply, _rta |-> rta_address], <<>>)

\* ERC1450Contract.encode_constructor_params
ERC1450Contract_encode_constructor_params(name, symbol, decimals, total_supply, rta_address) ==
    IF name = "" THEN Raise("ValueError", "Token name is required", <<>>)
    ELSE IF symbol = "" THEN Raise("ValueError", "Token symbol is required", <<>>)
    ELSE IF decimals < 0 \/ decimals > MaxDecimals
         THEN Raise("ValueError", "Decimals must be between 0 and 18", <<>>)
    ELSE IF total_supply <= 0
         THEN Raise("ValueError", "Total supply must be greater than 0", <<>>)
    ELSE IF rta_address = "" \/ ~ startswith(rta_address, "0x")
         THEN Raise("ValueError", "Invalid RTA address", <<>>)
    ELSE IF Len(rta_address) # 42
         THEN Raise("ValueError", "RTA address must be 42 characters", <<>>)
    ELSE Return([_name |-> name, _symbol |-> symbol, _decimals |-> decimals,
                 _totalSupply |-> total_supply, _rta |-> rta_address], <<>>)

\* ERC1450Contract.prepare_transfer_function
\* A bundle that is handed out even when the parameters are rejected, with
\* no constructor arguments in it.
ERC1450Contract_get_deployment_data_partial(self, name, symbol, decimals, total_supply, rta_address) ==
    LET constructor_args ==
            ERC1450Contract_encode_constructor_params(name, symbol, decimals, total_supply,
                                                      rta_address)
    IN  Return([bytecode |-> self.bytecode,
                abi |-> self.abi,
                constructor_args |->
                    IF constructor_args.kind = "raise" THEN <<>> ELSE constructor_args.val,
                contract_name |-> ERC1450Contract_CONTRACT_NAME],
               <<>>)

\* ERC1450Contract.get_deployment_data: the exception of
\* encode_constructor_params propagates before the record is built.
ERC1450Contract_get_deployment_data(self, name, symbol, decimals, total_supply, rta_address) ==
    LET constructor_args ==
            ERC1450Contract_encode_constructor_params(name, symbol, decimals, total_supply,
                                                      rta_address)
    IN  IF constructor_args.kind = "raise" THEN constructor_args
        ELSE Return([bytecode |-> self.bytecode,
                     abi |-> self.abi,
                     constructor_args |-> constructor_args.val,
                     contract_name |-> ERC1450Contract_CONTRACT_NAME],
                    <<>>)

prepare_transfer_function(self, from_address, to_address, amount) ==
    prepare_transaction(self, "transfer", <<from_address, to_address, amount>>, <<>>)

\* ERC1450Contract.prepare_mint_function
prepare_mint_function(self, to_address, amount) ==
    prepare_transaction(self, "mint", <<to_address, amount>>, <<>>)

\* ERC1450Contract.prepare_burn_function
prepare_burn_function(self, from_address, amount) ==
    prepare_transaction(self, "burn", <<from_address, amount>>, <<>>)

\* ERC1450Contract.calculate_token_amount (static):
\* int(human_amount * (10 ** decimals))
calculate_token_amount(human_amount, decimals) ==
    FloatToInt(FloatMul(human_amount, IntToFloat(BigPow10(decimals))))

\* ERC1450Contract.format_token_amount (static):
\* contract_amount / (10 ** decimals)
format_token_amount(contract_amount, decimals) ==
    TrueDivPow10(contract_amount, decimals)

ERC1450Contract_base_gas == 2000000

ERC1450Contract_gas_per_character == 1000

\* ERC1450Contract.estimate_deployment_gas
ERC1450Contract_estimate_deployment_gas(self, name, symbol) ==
    ERC1450Contract_base_gas + (Len(name) + Len(symbol)) * ERC1450Contract_gas_per_character

-----------------------------------------------------------------------------
(* contracts/rta_proxy.py                                                  *)

RTAProxyContract_CONTRACT_NAME == "RTAProxy"

\* len(set(signers)) != len(signers)
has_duplicates(signers) == Len(signers) # Cardinality(Range(signers))

\* An encoder that never looks for duplicates.
RTAProxyContract_encode_constructor_params_no_dup_check(signers, required_signatures) ==
    IF signers = <<>> THEN Raise("ValueError", "At least one signer is required", <<>>)
    ELSE IF required_signatures <= 0
         THEN Raise("ValueError", "Required signatures must be greater than 0", <<>>)
    ELSE IF required_signatures > Len(signers)
         THEN Raise("ValueError",
                    "Required signatures (" \o ToString(required_signatures)
                        \o ") cannot exceed number of signers ("
                        \o ToString(Len(signers)) \o ")",
                    <<>>)
    ELSE Return([_signers |-> signers, _requiredSignatures |-> required_signatures], <<>>)

\* RTAProxyContract.encode_constructor_params
RTAProxyContract_encode_constructor_params(signers, required_signatures) ==
    IF signers = <<>> THEN Raise("ValueError", "At least one signer is required", <<>>)
    ELSE IF required_signatures <= 0
         THEN Raise("ValueError", "Required signatures must be greater than 0", <<>>)
    ELSE IF required_signatures > Len(signers)
         THEN Raise("ValueError",
                    "Required signatures (" \o ToString(required_signatures)
                        \o ") cannot exceed number of signers ("
                        \o ToString(Len(signers)) \o ")",
                    <<>>)
    ELSE IF has_duplicates(signers)
         THEN Raise("ValueError", "Duplicate signers not allowed", <<>>)
    ELSE Return([_signers |-> signers, _requiredSignatures |-> required_signatures], <<>>)

\* RTAProxyContract.get_deployment_data
RTAProxyContract_get_deployment_data(self, signers, required_signatures) ==
    LET constructor_args ==
            RTAProxyContract_encode_constructor_params(signers, required_signatures)
    IN  IF constructor_args.kind = "raise" THEN constructor_args
        ELSE Return([bytecode |-> self.bytecode,
                     abi |-> self.abi,
                     constructor_args |-> constructor_args.val,
                     contract_name |-> RTAProxyContract_CONTRACT_NAME],
                    <<>>)

\* A check that forgets to look for duplicates.
validate_signer_configuration_no_dup_check(signers, threshold) ==
    IF signers = <<>> THEN FALSE
    ELSE IF threshold <= 0 \/ threshold > Len(signers) THEN FALSE
    ELSE \A i \in DOMAIN signers :
             ~ (~ startswith(signers[i], "0x") \/ Len(signers[i]) # 42)

\* A check that only looks at the prefix of each address.
validate_signer_configuration_prefix_only(signers, threshold) ==
    IF signers = <<>> THEN FALSE
    ELSE IF threshold <= 0 \/ threshold > Len(signers) THEN FALSE
    ELSE IF has_duplicates(signers) THEN FALSE
    ELSE \A i \in DOMAIN signers : startswith(signers[i], "0x")

\* RTAProxyContract.validate_signer_configuration (static).  The loop over
\* signers returns False at the first bad address and True after the last.
validate_signer_configuration(signers, threshold) ==
    IF signers = <<>> THEN FALSE
    ELSE IF threshold <= 0 \/ threshold > Len(signers) THEN FALSE
    ELSE IF has_duplicates(signers) THEN FALSE
    ELSE \A i \in DOMAIN signers :
             ~ (~ startswith(signers[i], "0x") \/ Len(signers[i]) # 42)

RTAProxyContract_base_gas == 500000

RTAProxyContract_per_signer_gas == 50000

\* An estimate that charges per required signature.
RTAProxyContract_estimate_deployment_gas_per_signature(self, signers, required_signatures) ==
    RTAProxyContract_base_gas + required_signatures * RTAProxyContract_per_signer_gas

\* RTAProxyContract.estimate_deployment_gas
RTAProxyContract_estimate_deployment_gas(self, signers, required_signatures) ==
    RTAProxyContract_base_gas + Len(signers) * RTAProxyContract_per_signer_gas

-----------------------------------------------------------------------------
(* The values the model draws from.                                        *)

\* ABI descriptors as the compiler writes them.
Fn(name, inputs) == [type |-> "function", name |-> name, inputs |-> inputs]

Ev(name) == [type |-> "event", name |-> name, inputs |-> <<>>]

\* A compiled contract, a compiled interface (no bytecode), and a JSON
\* object that carries none of the artifact's fields.
FullArtifact ==
    [abi |-> << Fn("transfer", <<"address", "address", "uint256">>) >>,
     bytecode |-> "0x6080",
     deployedBytecode |-> "0x6080"]

InterfaceArtifact ==
    [abi |-> << Fn("transfer", <<"address", "address", "uint256">>) >>,
     bytecode |-> "0x",
     deployedBytecode |-> "0x"]

EmptyArtifact == <<>>

\* An artifact that carries an ABI and nothing else.
AbiOnlyArtifact == [abi |-> << Fn("transfer", <<"address", "address", "uint256">>) >>]

LoaderDocs == {FullArtifact, InterfaceArtifact, EmptyArtifact, AbiOnlyArtifact}

\* Names a caller may pass to the loader: the table's keys, case and
\* whitespace variants of them, and strangers.
LoaderNames ==
    Range(ContractKeys) \cup
        {"rtaproxy", " RTAProxy", "RTAProxy ", "ERC1450\n", "Token", ""}

NoWrapper == [live |-> FALSE, abi |-> <<>>, bytecode |-> ""]

\* All sequences over S of length at most n.
SeqsUpTo(S, n) == UNION {[1..k -> S] : k \in 0..n}

\* The character c repeated n times.
RECURSIVE Pad(_, _)
Pad(c, n) == IF n = 0 THEN "" ELSE c \o Pad(c, n - 1)

\* Three well-formed addresses, and addresses that are too short, too long,
\* of the right length without the prefix, and a bare prefix.
AddrA == "0x" \o Pad("a", 40)

AddrB == "0x" \o Pad("b", 40)

AddrC == "0x" \o Pad("c", 40)

ShortAddr == "0x" \o Pad("a", 39)

LongAddr == "0x" \o Pad("a", 41)

NoPrefixAddr == Pad("a", 42)

\* The longest signers list the model passes.
MaxSigners == 3

SignerPool == {AddrA, AddrB, AddrC, ShortAddr, NoPrefixAddr}

SignerLists == SeqsUpTo(SignerPool, MaxSigners)

Thresholds == -1..(MaxSigners + 1)

TokenNames == {"", "T", "StartEngine Token"}

TokenSymbols == {"", "T", "SET"}

\* The signers lists the gas estimate is asked about.
GasSignerLists == SeqsUpTo({AddrA, ShortAddr}, MaxSigners)

DecimalsInputs == -1..(MaxDecimals + 1)

SupplyInputs == {-1, 0, 1, 1000000}

RtaAddresses == {"", "0x", AddrA, ShortAddr, LongAddr, NoPrefixAddr}

\* The artifacts a wrapper is built from where only its pure methods are
\* exercised.
ParamDocs == {FullArtifact, EmptyArtifact}

\* The calls of the parameter checks, one per combination of inputs.
TokenEncodeCalls ==
    {[op |-> "token.encode_constructor_params", name |-> name, symbol |-> symbol,
      decimals |-> decimals, total_supply |-> total_supply, rta_address |-> rta_address] :
        name \in TokenNames, symbol \in TokenSymbols, decimals \in DecimalsInputs,
        total_supply \in SupplyInputs, rta_address \in RtaAddresses}

ProxyEncodeCalls ==
    {[op |-> "proxy.encode_constructor_params", signers |-> signers,
      required_signatures |-> required_signatures] :
        signers \in SignerLists, required_signatures \in Thresholds}

ValidateSignerCalls ==
    {[op |-> "validate_signer_configuration", signers |-> signers,
      threshold |-> threshold] :
        signers \in SignerLists, threshold \in Thresholds}

\* The calls of get_deployment_data, over the same inputs.
TokenDeployCalls ==
    {[c EXCEPT !.op = "token.get_deployment_data"] : c \in TokenEncodeCalls}

ProxyDeployCalls ==
    {[c EXCEPT !.op = "proxy.get_deployment_data"] : c \in ProxyEncodeCalls}

\* An artifact as Hardhat writes it: it names its contract and source, and
\* its creation bytecode is longer than its deployed bytecode.
HardhatArtifact ==
    [contractName |-> "RTAProxy",
     sourceName |-> "contracts/RTAProxy.sol",
     abi |-> << Fn("mint", <<"address", "uint256">>) >>,
     bytecode |-> "0x60806040",
     deployedBytecode |-> "0x6080"]

\* The artifacts the build leaves at the wrappers' paths, one after another.
SnapshotDocs == {FullArtifact, HardhatArtifact, EmptyArtifact}

WrapperPaths ==
    {PathOf(ERC1450Contract_CONTRACT_NAME), PathOf(RTAProxyContract_CONTRACT_NAME)}

\* The names the accessors are asked about: the wrappers' and a stranger.
AccessorNames == {ERC1450Contract_CONTRACT_NAME, RTAProxyContract_CONTRACT_NAME, "Token"}

\* get_deployment_data on a live wrapper: parameters that pass and
\* parameters that do not.
SnapshotTokenDeployCalls ==
    {[op |-> "token.get_deployment_data", name |-> "T", symbol |-> "T", decimals |-> 18,
      total_supply |-> total_supply, rta_address |-> AddrA] : total_supply \in {0, 1}}

SnapshotProxyDeployCalls ==
    {[op |-> "proxy.get_deployment_data", signers |-> signers, required_signatures |-> 1] :
        signers \in {<<>>, <<AddrA>>}}

\* ABI entries: an overloaded function, an event of the same name, two more
\* functions, and a constructor (which has no name).
TransferInputs == <<"address", "address", "uint256">>

AmountInputs == <<"address", "uint256">>

AbiEntries ==
    {Fn("transfer", TransferInputs), Fn("transfer", AmountInputs), Ev("transfer"),
     Fn("mint", AmountInputs), Fn("burn", AmountInputs),
     [type |-> "constructor", inputs |-> <<>>]}

\* The longest ABI the model loads.
MaxAbiLen == 2

Abis == SeqsUpTo(AbiEntries, MaxAbiLen)

ArtifactWithAbi(abi) == [abi |-> abi, bytecode |-> "0x6080", deployedBytecode |-> "0x6080"]

FunctionNames == {"transfer", "mint", "burn", "approve"}

\* Positional arguments passed to prepare_transaction: none, fewer than any
\* function takes, and the same two in both orders.
ArgLists == {<<>>, <<"0xA">>, <<"0xA", "5">>, <<"5", "0xA">>}

KwargsInputs == {<<>>, [gas |-> "21000"]}

ShortcutAddresses == {AddrA, AddrB}

ShortcutAmounts == {0, 5}

\* The largest smallest-unit amount the model formats.
MaxAmount == 100

\* The double 1.5
OneAndAHalf == [m |-> <<3>>, e |-> -1]

FormatCalls ==
    {[op |-> "format_token_amount", contract_amount |-> n, decimals |-> d] :
        n \in 0..MaxAmount, d \in 0..MaxDecimals}

\* calculate_token_amount(1.5, 18), called on its own.
CalculateCalls ==
    {[op |-> "calculate_token_amount", human_amount |-> OneAndAHalf,
      decimals |-> MaxDecimals, formatted_from |-> -1]}

-----------------------------------------------------------------------------
(* The loader's operations, and the build writing and removing artifacts.  *)

WriteArtifact ==
    \E p \in ArtifactPaths, d \in LoaderDocs :
        /\ files' = [files EXCEPT ![p] = Present(d)]
        /\ call' = [op |-> "write", path |-> p]
        /\ ret' = NoResult
        /\ UNCHANGED <<token, proxy>>

CorruptArtifact ==
    \E p \in ArtifactPaths :
        /\ files' = [files EXCEPT ![p] = Malformed]
        /\ call' = [op |-> "corrupt", path |-> p]
        /\ ret' = NoResult
        /\ UNCHANGED <<token, proxy>>

RemoveArtifact ==
    \E p \in ArtifactPaths :
        /\ files' = [files EXCEPT ![p] = Absent]
        /\ call' = [op |-> "remove", path |-> p]
        /\ ret' = NoResult
        /\ UNCHANGED <<token, proxy>>

Call_load_artifact ==
    \E n \in LoaderNames :
        /\ call' = [op |-> "load_artifact", contract_name |-> n]
        /\ ret' = load_artifact(files, n)
        /\ UNCHANGED <<files, token, proxy>>

Call_list_available_contracts ==
    /\ call' = [op |-> "list_available_contracts"]
    /\ ret' = Return(list_available_contracts, <<>>)
    /\ UNCHANGED <<files, token, proxy>>

Call_validate_artifacts ==
    /\ call' = [op |-> "validate_artifacts"]
    /\ ret' = validate_artifacts(files)
    /\ UNCHANGED <<files, token, proxy>>

\* The build rewrites or cleans a wrapper's artifact.
RebuildWrapperArtifact ==
    \E p \in WrapperPaths, d \in SnapshotDocs :
        /\ files' = [files EXCEPT ![p] = Present(d)]
        /\ call' = [op |-> "write", path |-> p]
        /\ ret' = NoResult
        /\ UNCHANGED <<token, proxy>>

CleanWrapperArtifact ==
    \E p \in WrapperPaths :
        /\ files' = [files EXCEPT ![p] = Absent]
        /\ call' = [op |-> "remove", path |-> p]
        /\ ret' = NoResult
        /\ UNCHANGED <<token, proxy>>

Call_get_abi ==
    \E n \in AccessorNames :
        /\ call' = [op |-> "get_abi", contract_name |-> n]
        /\ ret' = get_abi(files, n)
        /\ UNCHANGED <<files, token, proxy>>

Call_get_bytecode ==
    \E n \in AccessorNames :
        /\ call' = [op |-> "get_bytecode", contract_name |-> n]
        /\ ret' = get_bytecode(files, n)
        /\ UNCHANGED <<files, token, proxy>>

Call_get_deployed_bytecode ==
    \E n \in AccessorNames :
        /\ call' = [op |-> "get_deployed_bytecode", contract_name |-> n]
        /\ ret' = get_deployed_bytecode(files, n)
        /\ UNCHANGED <<files, token, proxy>>

Call_get_contract_metadata ==
    \E n \in AccessorNames :
        /\ call' = [op |-> "get_contract_metadata", contract_name |-> n]
        /\ ret' = get_contract_metadata(files, n)
        /\ UNCHANGED <<files, token, proxy>>

\* python scripts/validate_package.py
Call_validate ==
    /\ call' = [op |-> "validate"]
    /\ ret' = validate(files)
    /\ UNCHANGED <<files, token, proxy>>

\* ERC1450Contract(): a failed construction leaves no new instance.
New_ERC1450Contract ==
    LET r == Contract_init(files, ERC1450Contract_CONTRACT_NAME)
    IN  /\ call' = [op |-> "ERC1450Contract"]
        /\ ret' = r
        /\ token' = IF r.kind = "return" THEN r.val ELSE token
        /\ UNCHANGED <<files, proxy>>

\* RTAProxyContract()
New_RTAProxyContract ==
    LET r == Contract_init(files, RTAProxyContract_CONTRACT_NAME)
    IN  /\ call' = [op |-> "RTAProxyContract"]
        /\ ret' = r
        /\ proxy' = IF r.kind = "return" THEN r.val ELSE proxy
        /\ UNCHANGED <<files, token>>

\* The parameter checks are pure: the call is drawn when the behaviour
\* starts (call holds its arguments, ret is still empty) and the action
\* applies the method to it.
Call_ERC1450Contract_encode_constructor_params ==
    /\ token.live
    /\ call.op = "token.encode_constructor_params"
    /\ ret = NoResult
    /\ ret' = ERC1450Contract_encode_constructor_params(call.name, call.symbol, call.decimals,
                                           call.total_supply, call.rta_address)
    /\ UNCHANGED <<files, token, proxy, call>>

Call_RTAProxyContract_encode_constructor_params ==
    /\ proxy.live
    /\ call.op = "proxy.encode_constructor_params"
    /\ ret = NoResult
    /\ ret' = RTAProxyContract_encode_constructor_params(call.signers, call.required_signatures)
    /\ UNCHANGED <<files, token, proxy, call>>

Call_ERC1450Contract_get_deployment_data ==
    /\ token.live
    /\ call.op = "token.get_deployment_data"
    /\ ret = NoResult
    /\ ret' = ERC1450Contract_get_deployment_data(token, call.name, call.symbol,
                                                  call.decimals, call.total_supply,
                                                  call.rta_address)
    /\ UNCHANGED <<files, token, proxy, call>>

Call_RTAProxyContract_get_deployment_data ==
    /\ proxy.live
    /\ call.op = "proxy.get_deployment_data"
    /\ ret = NoResult
    /\ ret' = RTAProxyContract_get_deployment_data(proxy, call.signers,
                                                   call.required_signatures)
    /\ UNCHANGED <<files, token, proxy, call>>

\* get_deployment_data called at any time on a wrapper that was constructed
\* earlier.
Call_ERC1450Contract_get_deployment_data_later ==
    /\ token.live
    /\ \E c \in SnapshotTokenDeployCalls :
          /\ call' = c
          /\ ret' = ERC1450Contract_get_deployment_data(token, c.name, c.symbol, c.decimals,
                                                        c.total_supply, c.rta_address)
    /\ UNCHANGED <<files, token, proxy>>

Call_RTAProxyContract_get_deployment_data_later ==
    /\ proxy.live
    /\ \E c \in SnapshotProxyDeployCalls :
          /\ call' = c
          /\ ret' = RTAProxyContract_get_deployment_data(proxy, c.signers,
                                                         c.required_signatures)
    /\ UNCHANGED <<files, token, proxy>>

\* encode_constructor_params called with the signers and the threshold that
\* validate_signer_configuration has just judged (validated remembers its
\* verdict).
Call_RTAProxyContract_encode_constructor_params_validated ==
    /\ proxy.live
    /\ call.op = "validate_signer_configuration"
    /\ ret.kind = "return"
    /\ call' = [op |-> "proxy.encode_constructor_params", signers |-> call.signers,
                required_signatures |-> call.threshold, validated |-> ret.val]
    /\ ret' = RTAProxyContract_encode_constructor_params(call.signers, call.threshold)
    /\ UNCHANGED <<files, token, proxy>>

\* A static method: it needs no instance.
Call_validate_signer_configuration ==
    /\ call.op = "validate_signer_configuration"
    /\ ret = NoResult
    /\ ret' = Return(validate_signer_configuration(call.signers, call.threshold), <<>>)
    /\ UNCHANGED <<files, token, proxy, call>>

Call_ERC1450Contract_estimate_deployment_gas ==
    /\ token.live
    /\ \E name \in TokenNames, symbol \in TokenSymbols :
          /\ call' = [op |-> "token.estimate_deployment_gas", name |-> name,
                      symbol |-> symbol]
          /\ ret' = Return(ERC1450Contract_estimate_deployment_gas(token, name, symbol), <<>>)
    /\ UNCHANGED <<files, token, proxy>>

Call_RTAProxyContract_estimate_deployment_gas ==
    /\ proxy.live
    /\ \E signers \in GasSignerLists, required_signatures \in Thresholds :
          /\ call' = [op |-> "proxy.estimate_deployment_gas", signers |-> signers,
                      required_signatures |-> required_signatures]
          /\ ret' = Return(RTAProxyContract_estimate_deployment_gas(proxy, signers, required_signatures),
                           <<>>)
    /\ UNCHANGED <<files, token, proxy>>

\* A static method.  contract_amount is kept as a plain integer in call and
\* handed over as a Python int.
Call_format_token_amount ==
    /\ call.op = "format_token_amount"
    /\ ret = NoResult
    /\ ret' = Return(format_token_amount(BigFromInt(call.contract_amount), call.decimals),
                     <<>>)
    /\ UNCHANGED <<files, token, proxy, call>>

\* A static method, applied either to the call drawn at the start or to the
\* amount format_token_amount has just returned, with the same decimals
\* (formatted_from then remembers the amount that was formatted).
Call_calculate_token_amount ==
    /\ \/ /\ call.op = "calculate_token_amount"
          /\ ret = NoResult
          /\ call' = call
       \/ /\ call.op = "format_token_amount"
          /\ ret.kind = "return"
          /\ call' = [op |-> "calculate_token_amount", human_amount |-> ret.val,
                      decimals |-> call.decimals,
                      formatted_from |-> call.contract_amount]
    /\ ret' = Return(calculate_token_amount(call'.human_amount, call'.decimals), <<>>)
    /\ UNCHANGED <<files, token, proxy>>

Call_ERC1450Contract_prepare_transaction ==
    /\ token.live
    /\ \E function_name \in FunctionNames, args \in ArgLists, kwargs \in KwargsInputs :
          /\ call' = [op |-> "token.prepare_transaction", function_name |-> function_name,
                      args |-> args, kwargs |-> kwargs]
          /\ ret' = prepare_transaction(token, function_name, args, kwargs)
    /\ UNCHANGED <<files, token, proxy>>

Call_RTAProxyContract_prepare_transaction ==
    /\ proxy.live
    /\ \E function_name \in FunctionNames, args \in ArgLists, kwargs \in KwargsInputs :
          /\ call' = [op |-> "proxy.prepare_transaction", function_name |-> function_name,
                      args |-> args, kwargs |-> kwargs]
          /\ ret' = prepare_transaction(proxy, function_name, args, kwargs)
    /\ UNCHANGED <<files, token, proxy>>

Call_prepare_transfer_function ==
    /\ token.live
    /\ \E from_address \in ShortcutAddresses, to_address \in ShortcutAddresses,
          amount \in ShortcutAmounts :
          /\ call' = [op |-> "token.prepare_transfer_function",
                      from_address |-> from_address, to_address |-> to_address,
                      amount |-> amount]
          /\ ret' = prepare_transfer_function(token, from_address, to_address, amount)
    /\ UNCHANGED <<files, token, proxy>>

Call_prepare_mint_function ==
    /\ token.live
    /\ \E to_address \in ShortcutAddresses, amount \in ShortcutAmounts :
          /\ call' = [op |-> "token.prepare_mint_function", to_address |-> to_address,
                      amount |-> amount]
          /\ ret' = prepare_mint_function(token, to_address, amount)
    /\ UNCHANGED <<files, token, proxy>>

Call_prepare_burn_function ==
    /\ token.live
    /\ \E from_address \in ShortcutAddresses, amount \in ShortcutAmounts :
          /\ call' = [op |-> "token.prepare_burn_function", from_address |-> from_address,
                      amount |-> amount]
          /\ ret' = prepare_burn_function(token, from_address, amount)
    /\ UNCHANGED <<files, token, proxy>>

InitLoader ==
    /\ files = [p \in ArtifactPaths |-> Absent]
    /\ token = NoWrapper
    /\ proxy = NoWrapper
    /\ call = [op |-> "import"]
    /\ ret = NoResult

NextLoader ==
    \/ WriteArtifact
    \/ CorruptArtifact
    \/ RemoveArtifact
    \/ Call_load_artifact
    \/ Call_list_available_contracts
    \/ Call_validate_artifacts

SpecLoader == InitLoader /\ [][NextLoader]_vars

\* The validation script, run any number of times while the build writes,
\* damages and removes artifacts.
InitValidate == InitLoader

NextValidate ==
    \/ WriteArtifact
    \/ CorruptArtifact
    \/ RemoveArtifact
    \/ Call_validate

SpecValidate == InitValidate /\ [][NextValidate]_vars

\* The accessors and the wrappers while the build rewrites and cleans the
\* wrappers' artifacts: every call may come before or after any change.
InitSnapshot == InitLoader

NextSnapshot ==
    \/ RebuildWrapperArtifact
    \/ CleanWrapperArtifact
    \/ Call_get_abi
    \/ Call_get_bytecode
    \/ Call_get_deployed_bytecode
    \/ Call_get_contract_metadata
    \/ New_ERC1450Contract
    \/ New_RTAProxyContract
    \/ Call_ERC1450Contract_prepare_transaction
    \/ Call_RTAProxyContract_prepare_transaction
    \/ Call_ERC1450Contract_get_deployment_data_later
    \/ Call_RTAProxyContract_get_deployment_data_later

SpecSnapshot == InitSnapshot /\ [][NextSnapshot]_vars

\* The filesystem in which only the two wrappers' artifacts exist.
WrapperFiles(token_file, proxy_file) ==
    [p \in ArtifactPaths |->
        IF p = PathOf(ERC1450Contract_CONTRACT_NAME) THEN token_file
        ELSE IF p = PathOf(RTAProxyContract_CONTRACT_NAME) THEN proxy_file
        ELSE Absent]

\* The wrappers' parameter checks.  Both wrappers have been constructed, from
\* the same one of ParamDocs, and one call has been drawn.
InitParams ==
    /\ \E d \in ParamDocs : files = WrapperFiles(Present(d), Present(d))
    /\ token = Contract_init(files, ERC1450Contract_CONTRACT_NAME).val
    /\ proxy = Contract_init(files, RTAProxyContract_CONTRACT_NAME).val
    /\ call \in TokenEncodeCalls \cup ProxyEncodeCalls \cup ValidateSignerCalls
                \cup TokenDeployCalls \cup ProxyDeployCalls
    /\ ret = NoResult

NextParams ==
    \/ Call_ERC1450Contract_encode_constructor_params
    \/ Call_RTAProxyContract_encode_constructor_params
    \/ Call_validate_signer_configuration
    \/ Call_ERC1450Contract_get_deployment_data
    \/ Call_RTAProxyContract_get_deployment_data
    \/ Call_RTAProxyContract_encode_constructor_params_validated

SpecParams == InitParams /\ [][NextParams]_vars

\* The gas estimates, called any number of times in any order on wrappers
\* built from an artifact that is missing, complete, or empty.
InitGas ==
    /\ \E f \in {Absent, Present(FullArtifact), Present(EmptyArtifact)} :
          files = WrapperFiles(f, f)
    /\ token = NoWrapper
    /\ proxy = NoWrapper
    /\ call = [op |-> "import"]
    /\ ret = NoResult

NextGas ==
    \/ New_ERC1450Contract
    \/ New_RTAProxyContract
    \/ Call_ERC1450Contract_estimate_deployment_gas
    \/ Call_RTAProxyContract_estimate_deployment_gas

SpecGas == InitGas /\ [][NextGas]_vars

\* The token amount helpers: one amount is formatted and converted back, or
\* 1.5 is converted at 18 decimals.
InitAmount ==
    /\ files = WrapperFiles(Absent, Absent)
    /\ token = NoWrapper
    /\ proxy = NoWrapper
    /\ call \in FormatCalls \cup CalculateCalls
    /\ ret = NoResult

NextAmount ==
    \/ Call_format_token_amount
    \/ Call_calculate_token_amount

SpecAmount == InitAmount /\ [][NextAmount]_vars

\* prepare_transaction and its shortcuts, over artifacts that do not change.
\* One wrapper's artifact carries any of the ABIs; the other wrapper's is the
\* plain compiled contract (the wrappers share nothing, so what one loaded
\* does not bear on the other).
InitTx ==
    /\ \E abi \in Abis :
          \/ files = WrapperFiles(Present(ArtifactWithAbi(abi)), Present(FullArtifact))
          \/ files = WrapperFiles(Present(FullArtifact), Present(ArtifactWithAbi(abi)))
    /\ token = NoWrapper
    /\ proxy = NoWrapper
    /\ call = [op |-> "import"]
    /\ ret = NoResult

NextTx ==
    \/ New_ERC1450Contract
    \/ New_RTAProxyContract
    \/ Call_ERC1450Contract_prepare_transaction
    \/ Call_RTAProxyContract_prepare_transaction
    \/ Call_prepare_transfer_function
    \/ Call_prepare_mint_function
    \/ Call_prepare_burn_function

SpecTx == InitTx /\ [][NextTx]_vars

-----------------------------------------------------------------------------
(* Properties of the loader.                                               *)

\* The names the specification lists as the known-contract table.
KnownNames == {"RTAProxy", "ERC1450", "RTAProxyUpgradeable", "ERC1450Upgradeable", "IERC1450"}

AllAbsent == [p \in ArtifactPaths |-> Absent]

AllPresent == [p \in ArtifactPaths |-> Present(FullArtifact)]

IsList(v) == DOMAIN v = 1..Len(v)

Opened(r) == \E i \in DOMAIN r.fsops : r.fsops[i][1] = "open"

\* C1: load_artifact raises ValueError for every name that is not exactly a
\* key of the table (case and whitespace variants included), without
\* touching the filesystem, and with the same outcome whatever files exist.
C1_UnknownNameRaises ==
    (call.op = "load_artifact" /\ call.contract_name \notin KnownNames)
        => /\ ret.kind = "raise"
           /\ ret.exc = "ValueError"
           /\ ret.fsops = <<>>
           /\ ret = load_artifact(AllAbsent, call.contract_name)
           /\ ret = load_artifact(AllPresent, call.contract_name)

\* A whitespace-padded known name was looked up while its artifact exists.
C1_Witness ==
    /\ call.op = "load_artifact"
    /\ call.contract_name = " RTAProxy"
    /\ files[PathOf("RTAProxy")].exists
    /\ ret.kind = "raise"

\* C2 as stated: for every name of the table load_artifact succeeds and
\* returns a record with an abi list and a bytecode key.
C2_KnownNameAlwaysLoads ==
    (call.op = "load_artifact" /\ call.contract_name \in KnownNames)
        => /\ ret.kind = "return"
           /\ "abi" \in DOMAIN ret.val
           /\ IsList(ret.val.abi)
           /\ "bytecode" \in DOMAIN ret.val

\* C2 as amended: for every name of the table whose artifact file exists and
\* holds a JSON document, load_artifact succeeds and returns that document
\* unchanged, so it has an abi list and a bytecode key whenever the file has.
C2_KnownNameLoadsFile ==
    (/\ call.op = "load_artifact"
     /\ call.contract_name \in KnownNames
     /\ files[PathOf(call.contract_name)].exists
     /\ files[PathOf(call.contract_name)].wellformed)
        => /\ ret.kind = "return"
           /\ ret.val = files[PathOf(call.contract_name)].doc
           /\ \A k \in {"abi", "bytecode"} :
                  k \in DOMAIN files[PathOf(call.contract_name)].doc => k \in DOMAIN ret.val
           /\ "abi" \in DOMAIN ret.val => IsList(ret.val.abi)

\* The interface's artifact was loaded from an existing file.
C2_Witness ==
    /\ call.op = "load_artifact"
    /\ call.contract_name = "IERC1450"
    /\ files[PathOf("IERC1450")] = Present(InterfaceArtifact)
    /\ ret.kind = "return"
    /\ "bytecode" \in DOMAIN ret.val

\* C3: for a table name whose file does not exist load_artifact raises
\* FileNotFoundError without opening anything; validate_artifacts does not
\* raise and returns a map over exactly the table's keys whose value for a
\* name is true exactly when load_artifact succeeds for that name.
C3_MissingFile ==
    /\ (/\ call.op = "load_artifact"
        /\ call.contract_name \in KnownNames
        /\ ~ files[PathOf(call.contract_name)].exists)
           => /\ ret.kind = "raise"
              /\ ret.exc = "FileNotFoundError"
              /\ ~ Opened(ret)
    /\ call.op = "validate_artifacts"
           => /\ ret.kind = "return"
              /\ DOMAIN ret.val = KnownNames
              /\ \A n \in KnownNames :
                     ret.val[n] = (load_artifact(files, n).kind = "return")

\* validate_artifacts ran with one artifact missing, one unparsable and one
\* loadable, and reported both outcomes.
C3_Witness ==
    /\ call.op = "validate_artifacts"
    /\ ~ files[PathOf("RTAProxy")].exists
    /\ files[PathOf("ERC1450")] = Malformed
    /\ files[PathOf("IERC1450")] = Present(InterfaceArtifact)
    /\ ret.kind = "return"
    /\ ret.val["RTAProxy"] = FALSE
    /\ ret.val["ERC1450"] = FALSE
    /\ ret.val["IERC1450"] = TRUE

-----------------------------------------------------------------------------
(* Properties of the validation script.                                    *)

\* What the specification asks of one exposed contract: it loads, its ABI is
\* not empty, and it has bytecode other than 0x unless it is the interface.
ContractHealthy(n) ==
    LET f == files[PathOf(n)]
    IN  /\ f.exists
        /\ f.wellformed
        /\ "abi" \in DOMAIN f.doc
        /\ Len(f.doc.abi) > 0
        /\ \/ n = "IERC1450"
           \/ "bytecode" \in DOMAIN f.doc /\ f.doc.bytecode \notin {"", "0x"}

\* C11: validate() returns 0 exactly when every exposed contract loads, has
\* a non-empty ABI and has bytecode unless it is an interface, and 1
\* otherwise; whichever contracts fail, every contract is loaded and gets its
\* status line, in the table's order.
C11_ValidateExitCode ==
    call.op = "validate"
        => /\ ret.kind = "return"
           /\ ret.val \in {0, 1}
           /\ ret.val = 0 <=> \A n \in KnownNames : ContractHealthy(n)
           /\ Len(ret.out) = Cardinality(KnownNames)
           /\ \A n \in KnownNames :
                  /\ \E i \in DOMAIN ret.fsops : ret.fsops[i] = <<"exists", PathOf(n)>>
                  /\ \E i \in DOMAIN ret.out :
                         /\ ret.out[i].name = n
                         /\ (ret.out[i].mark = "ok") <=> ContractHealthy(n)

\* The script ran with the first artifact missing and the second damaged,
\* went on to the interface, accepted it without bytecode, and returned 1.
C11_Witness ==
    /\ call.op = "validate"
    /\ files[PathOf("RTAProxy")] = Absent
    /\ files[PathOf("ERC1450")] = Malformed
    /\ files[PathOf("IERC1450")] = Present(InterfaceArtifact)
    /\ ret.val = 1
    /\ ret.out[1].mark = "error"
    /\ ret.out[5].mark = "ok"

-----------------------------------------------------------------------------
(* Properties of the wrappers' parameter checks.                           *)

TokenParamsValid(c) ==
    /\ c.name # ""
    /\ c.symbol # ""
    /\ 0 <= c.decimals /\ c.decimals <= 18
    /\ c.total_supply > 0
    /\ Len(c.rta_address) = 42
    /\ SubSeq(c.rta_address, 1, 2) = "0x"

\* C4: the token's encode_constructor_params succeeds exactly when name and
\* symbol are non-empty, 0 <= decimals <= 18, total_supply > 0 and the RTA
\* address is 42 characters starting with 0x; it then returns exactly the
\* five keys bound to the inputs; otherwise it raises ValueError, with the
\* range messages for decimals out of range and for a supply that is not
\* positive.
C4_TokenEncode ==
    (call.op = "token.encode_constructor_params" /\ ret # NoResult)
        => /\ (ret.kind = "return") <=> TokenParamsValid(call)
           /\ ret.kind = "return"
                 => /\ DOMAIN ret.val =
                           {"_name", "_symbol", "_decimals", "_totalSupply", "_rta"}
                    /\ ret.val["_name"] = call.name
                    /\ ret.val["_symbol"] = call.symbol
                    /\ ret.val["_decimals"] = call.decimals
                    /\ ret.val["_totalSupply"] = call.total_supply
                    /\ ret.val["_rta"] = call.rta_address
           /\ ret.kind # "return" => ret.kind = "raise" /\ ret.exc = "ValueError"
           /\ (call.name # "" /\ call.symbol # "" /\ call.decimals = 19)
                 => ret.kind = "raise" /\ ret.msg = "Decimals must be between 0 and 18"
           /\ (/\ call.name # "" /\ call.symbol # ""
               /\ call.decimals \in 0..18 /\ call.total_supply = 0)
                 => ret.kind = "raise" /\ ret.msg = "Total supply must be greater than 0"

\* The specification's example: T, T, 18, 1 and a 42-character address.
C4_Witness ==
    /\ call = [op |-> "token.encode_constructor_params", name |-> "T", symbol |-> "T",
               decimals |-> 18, total_supply |-> 1, rta_address |-> AddrA]
    /\ ret.kind = "return"

SignersWellFormed(signers) ==
    \A i \in DOMAIN signers : Len(signers[i]) = 42 /\ SubSeq(signers[i], 1, 2) = "0x"

NoDuplicate(signers) ==
    \A i, j \in DOMAIN signers : signers[i] = signers[j] => i = j

\* C5: validate_signer_configuration returns true exactly when signers is
\* non-empty, 1 <= threshold <= len(signers), no signer repeats and every
\* signer is 42 characters starting with 0x; otherwise it returns false, and
\* it never raises.
C5_ValidateSigners ==
    (call.op = "validate_signer_configuration" /\ ret # NoResult)
        => /\ ret.kind = "return"
           /\ ret.val \in BOOLEAN
           /\ ret.val <=> /\ call.signers # <<>>
                          /\ 1 <= call.threshold
                          /\ call.threshold <= Len(call.signers)
                          /\ NoDuplicate(call.signers)
                          /\ SignersWellFormed(call.signers)
           /\ call.signers = <<AddrA, AddrB, AddrC>>
                 => (ret.val <=> call.threshold \in {1, 2, 3})

\* Three distinct well-formed signers with threshold 2 were accepted.
C5_Witness ==
    /\ call = [op |-> "validate_signer_configuration",
               signers |-> <<AddrA, AddrB, AddrC>>, threshold |-> 2]
    /\ ret.kind = "return"
    /\ ret.val = TRUE

C14_SignerChecksConsistent ==
    (/\ call.op = "proxy.encode_constructor_params"
     /\ "validated" \in DOMAIN call
     /\ ret # NoResult)
        => /\ call.validated => ret.kind = "return"
           /\ ret.kind = "raise" => ~ call.validated
           /\ SignersWellFormed(call.signers)
                 => (call.validated <=> ret.kind = "return")

\* A list with a malformed signer was refused by the validator and then
\* accepted by the encoder: the implication runs one way only.
C14_Witness ==
    /\ call.op = "proxy.encode_constructor_params"
    /\ "validated" \in DOMAIN call
    /\ call.signers = <<AddrA, ShortAddr>>
    /\ call.required_signatures = 2
    /\ call.validated = FALSE
    /\ ret.kind = "return"

\* What a wrapper built from the file f holds.
Loaded(f) ==
    [live |-> TRUE, abi |-> Get(f.doc, "abi", <<>>), bytecode |-> Get(f.doc, "bytecode", "0x")]

\* C12: on both wrappers get_deployment_data raises exactly when
\* encode_constructor_params raises on the same arguments (the same error,
\* and no record), and otherwise returns exactly bytecode and abi as loaded
\* at construction, constructor_args as encode_constructor_params returns
\* them, and the wrapper's contract name; either way the wrapper still holds
\* what it loaded.
C12_DeploymentData ==
    /\ (call.op = "token.get_deployment_data" /\ ret # NoResult)
          => LET enc == ERC1450Contract_encode_constructor_params(
                            call.name, call.symbol, call.decimals, call.total_supply,
                            call.rta_address)
                 was == Loaded(files[PathOf("ERC1450")])
             IN  /\ (ret.kind = "raise") <=> ~ TokenParamsValid(call)
                 /\ (ret.kind = "raise") <=> (enc.kind = "raise")
                 /\ ret.kind = "raise" => ret = enc /\ "val" \notin DOMAIN ret
                 /\ ret.kind # "raise"
                       => /\ ret.kind = "return"
                          /\ ret.val = [bytecode |-> was.bytecode, abi |-> was.abi,
                                        constructor_args |-> enc.val,
                                        contract_name |-> "ERC1450"]
                 /\ token = was
    /\ (call.op = "proxy.get_deployment_data" /\ ret # NoResult)
          => LET enc == RTAProxyContract_encode_constructor_params(
                            call.signers, call.required_signatures)
                 was == Loaded(files[PathOf("RTAProxy")])
             IN  /\ (ret.kind = "raise")
                       <=> \/ call.signers = <<>>
                           \/ ~ NoDuplicate(call.signers)
                           \/ call.required_signatures < 1
                           \/ call.required_signatures > Len(call.signers)
                 /\ (ret.kind = "raise") <=> (enc.kind = "raise")
                 /\ ret.kind = "raise" => ret = enc /\ "val" \notin DOMAIN ret
                 /\ ret.kind # "raise"
                       => /\ ret.kind = "return"
                          /\ ret.val = [bytecode |-> was.bytecode, abi |-> was.abi,
                                        constructor_args |-> enc.val,
                                        contract_name |-> "RTAProxy"]
                 /\ proxy = was

\* The token wrapper refused to bundle a supply of zero: it raised the
\* encoder's error and kept the ABI it had loaded.
C12_Witness ==
    /\ call.op = "token.get_deployment_data"
    /\ call.name = "T"
    /\ call.decimals = 18
    /\ call.total_supply = 0
    /\ call.rta_address = AddrA
    /\ ret.kind = "raise"
    /\ ret.msg = "Total supply must be greater than 0"
    /\ token.abi = FullArtifact.abi

-----------------------------------------------------------------------------
(* Properties of prepare_transaction.                                      *)

\* The wrapper a prepare_transaction call was made on.
Callee == IF call.op = "token.prepare_transaction" THEN token ELSE proxy

\* The positions of the ABI entries that are functions of the called name.
FunctionHits(abi, function_name) ==
    {i \in DOMAIN abi :
        /\ "type" \in DOMAIN abi[i] /\ abi[i].type = "function"
        /\ "name" \in DOMAIN abi[i] /\ abi[i].name = function_name}

\* C7: on both wrappers prepare_transaction raises the not-found ValueError
\* when the ABI has no function entry of that name (an event of that name
\* does not count), and otherwise returns a record whose function field and
\* whose descriptor's name are the requested name, the descriptor being the
\* first matching entry; the token's three shortcuts return what
\* prepare_transaction returns for transfer, mint and burn with the same
\* positional arguments.
C7_PrepareTransaction ==
    /\ call.op \in {"token.prepare_transaction", "proxy.prepare_transaction"}
          => LET hits == FunctionHits(Callee.abi, call.function_name)
             IN  IF hits = {}
                 THEN /\ ret.kind = "raise"
                      /\ ret.exc = "ValueError"
                      /\ ret.msg = "Function " \o call.function_name \o " not found in ABI"
                 ELSE /\ ret.kind = "return"
                      /\ ret.val.function = call.function_name
                      /\ ret.val.abi.name = call.function_name
                      /\ ret.val.abi.type = "function"
                      /\ ret.val.abi =
                             Callee.abi[CHOOSE i \in hits : \A j \in hits : i <= j]
    /\ call.op = "token.prepare_transfer_function"
          => ret = prepare_transaction(token, "transfer",
                                      <<call.from_address, call.to_address, call.amount>>,
                                      <<>>)
    /\ call.op = "token.prepare_mint_function"
          => ret = prepare_transaction(token, "mint", <<call.to_address, call.amount>>, <<>>)
    /\ call.op = "token.prepare_burn_function"
          => ret = prepare_transaction(token, "burn", <<call.from_address, call.amount>>, <<>>)

\* transfer was prepared on an ABI that lists an event named transfer before
\* two overloads of the function: the first overload came back.
C7_Witness ==
    /\ call.op = "proxy.prepare_transaction"
    /\ call.function_name = "transfer"
    /\ Len(proxy.abi) = 2
    /\ proxy.abi[1] = Ev("transfer")
    /\ proxy.abi[2] = Fn("transfer", AmountInputs)
    /\ ret.kind = "return"
    /\ ret.val.abi = Fn("transfer", AmountInputs)

\* C8: when the function is present, every positional and every keyword
\* argument the caller passed appears, unmodified, in the record that
\* prepare_transaction returns.
C8_ArgumentsReturned ==
    (/\ call.op \in {"token.prepare_transaction", "proxy.prepare_transaction"}
     /\ ret.kind = "return")
        => /\ ret.val.args = call.args
           /\ \A k \in DOMAIN call.kwargs :
                  \/ k \in DOMAIN ret.val /\ ret.val[k] = call.kwargs[k]
                  \/ /\ "kwargs" \in DOMAIN ret.val
                     /\ k \in DOMAIN ret.val.kwargs
                     /\ ret.val.kwargs[k] = call.kwargs[k]

-----------------------------------------------------------------------------
(* Properties of the token amount helpers.                                 *)

\* C9: converting back what format_token_amount returned, at the same
\* decimals, gives the amount that was formatted, for every amount >= 0 and
\* every decimals in 0..18; and calculate_token_amount(1.5, 18) is
\* 1500000000000000000.
C9_RoundTrip ==
    (call.op = "calculate_token_amount" /\ ret # NoResult)
        => /\ call.formatted_from >= 0 => ret.val = BigFromInt(call.formatted_from)
           /\ (call.human_amount = OneAndAHalf /\ call.decimals = 18)
                 => ret.val = BigMulSmall(BigPow10(17), 15)

-----------------------------------------------------------------------------
(* Properties of the gas estimates.                                        *)

\* C10: every call of a gas estimate returns 2000000 + 1000 * (len(name) +
\* len(symbol)) on the token and 500000 + 50000 * len(signers) on the proxy,
\* whatever required_signatures is, whatever the wrapper loaded and whatever
\* was called before, and leaves the wrappers and the files as they were.
C10_GasEstimatesPure ==
    [][/\ call'.op = "token.estimate_deployment_gas"
          => /\ ret' = Return(2000000 + 1000 * (Len(call'.name) + Len(call'.symbol)), <<>>)
             /\ UNCHANGED <<files, token, proxy>>
       /\ call'.op = "proxy.estimate_deployment_gas"
          => /\ ret' = Return(500000 + 50000 * Len(call'.signers), <<>>)
             /\ UNCHANGED <<files, token, proxy>>]_vars

\* The proxy estimate was asked, after another estimate, about two signers
\* with a threshold above their number, on a wrapper that loaded no ABI.
C10_Witness ==
    /\ call.op = "proxy.estimate_deployment_gas"
    /\ Len(call.signers) = 2
    /\ call.required_signatures = 3
    /\ proxy.abi = <<>>
    /\ token.live
    /\ ret.val = 600000

-----------------------------------------------------------------------------
(* Properties of the accessors against the wrappers.                       *)

\* The field an accessor projects, and what it returns when the artifact
\* lacks the field.
AccessorField ==
    [get_abi               |-> [key |-> "abi", default |-> <<>>],
     get_bytecode          |-> [key |-> "bytecode", default |-> "0x"],
     get_deployed_bytecode |-> [key |-> "deployedBytecode", default |-> "0x"]]

\* What the wrapper w answers for function_name from the ABI it holds.
AnswersFrom(w, function_name, r) ==
    IF FunctionHits(w.abi, function_name) = {}
    THEN r.kind = "raise"
    ELSE /\ r.kind = "return"
         /\ \E i \in FunctionHits(w.abi, function_name) : r.val.abi = w.abi[i]

\* C13: every accessor call returns the projection of what the artifact file
\* holds at the time of that call ([] , 0x and 0x where the field is absent,
\* None for absent metadata); a wrapper changes only when it is constructed
\* afresh, prepare_transaction and get_deployment_data answer from the ABI
\* and bytecode the wrapper holds, whatever the file holds by then; and a
\* construction while the artifact is missing raises FileNotFoundError and
\* leaves no new wrapper.
C13_NoCacheButSnapshot ==
    [][/\ (call'.op \in DOMAIN AccessorField /\ call'.contract_name \in KnownNames)
             => LET f == files'[PathOf(call'.contract_name)]
                    a == AccessorField[call'.op]
                IN  IF f.exists /\ f.wellformed
                    THEN /\ ret'.kind = "return"
                         /\ ret'.val = IF a.key \in DOMAIN f.doc THEN f.doc[a.key]
                                       ELSE a.default
                    ELSE ret'.kind = "raise"
       /\ (call'.op = "get_contract_metadata" /\ call'.contract_name \in KnownNames)
             => LET f == files'[PathOf(call'.contract_name)]
                IN  IF f.exists /\ f.wellformed
                    THEN /\ ret'.kind = "return"
                         /\ DOMAIN ret'.val = {"contractName", "sourceName", "compiler",
                                               "networks", "schemaVersion"}
                         /\ \A k \in DOMAIN ret'.val :
                                IF k \in DOMAIN f.doc THEN ret'.val[k] = f.doc[k]
                                ELSE IF k = "networks" THEN ret'.val[k] = <<>>
                                ELSE ret'.val[k] = None
                    ELSE ret'.kind = "raise"
       /\ token' # token
             => /\ call'.op = "ERC1450Contract"
                /\ ret'.kind = "return"
                /\ token' = Loaded(files[PathOf("ERC1450")])
       /\ proxy' # proxy
             => /\ call'.op = "RTAProxyContract"
                /\ ret'.kind = "return"
                /\ proxy' = Loaded(files[PathOf("RTAProxy")])
       /\ call'.op = "token.prepare_transaction"
             => AnswersFrom(token, call'.function_name, ret')
       /\ call'.op = "proxy.prepare_transaction"
             => AnswersFrom(proxy, call'.function_name, ret')
       /\ (call'.op = "token.get_deployment_data" /\ ret'.kind = "return")
             => ret'.val.abi = token.abi /\ ret'.val.bytecode = token.bytecode
       /\ (call'.op = "proxy.get_deployment_data" /\ ret'.kind = "return")
             => ret'.val.abi = proxy.abi /\ ret'.val.bytecode = proxy.bytecode
       /\ (call'.op = "ERC1450Contract" /\ ~ files[PathOf("ERC1450")].exists)
             => ret'.kind = "raise" /\ ret'.exc = "FileNotFoundError" /\ token' = token
       /\ (call'.op = "RTAProxyContract" /\ ~ files[PathOf("RTAProxy")].exists)
             => ret'.kind = "raise" /\ ret'.exc = "FileNotFoundError" /\ proxy' = proxy
      ]_vars

\* The proxy wrapper, built from one artifact, bundled that artifact's ABI
\* and bytecode after the build had replaced the file by another, of which
\* get_abi would now return the ABI.
C13_Witness ==
    /\ call.op = "proxy.get_deployment_data"
    /\ ret.kind = "return"
    /\ files[PathOf("RTAProxy")] = Present(HardhatArtifact)
    /\ ret.val.abi = FullArtifact.abi
    /\ ret.val.bytecode = FullArtifact.bytecode
    /\ get_abi(files, "RTAProxy").val = HardhatArtifact.abi

====
